---- MODULE Spec2Model ----
(***************************************************************************)
(* Model of `jx create cluster gke terraform`                              *)
(* (pkg/jx/cmd/create_cluster_gke_terraform.go).                           *)
(*                                                                         *)
(* The command is a sequential wizard.  Every external interaction (a      *)
(* gcloud invocation, a survey prompt, a gke helper call, the os/user      *)
(* lookup) is one action; pc is the position in the code, trace the        *)
(* history of interactions performed so far.                               *)
(*                                                                         *)
(* Texts that the code only passes around are TLA+ strings.  Texts the     *)
(* code transforms character by character (cluster name, labels, user      *)
(* name) are sequences of one-character strings.  The output of a gcloud   *)
(* command is a sequence of lines, a line being its sequence of            *)
(* whitespace-separated fields (strings.Fields).                           *)
(***************************************************************************)
EXTENDS Integers, Sequences, FiniteSets, TLC

\* Largest number of projects `gcloud projects list` reports.
MaxProjects == 2

----------------------------------------------------------------------------
(* Text helpers *)

UpperToLower ==
    ("A" :> "a") @@ ("B" :> "b") @@ ("C" :> "c") @@ ("D" :> "d") @@
    ("E" :> "e") @@ ("F" :> "f") @@ ("G" :> "g") @@ ("H" :> "h") @@
    ("I" :> "i") @@ ("J" :> "j") @@ ("K" :> "k") @@ ("L" :> "l") @@
    ("M" :> "m") @@ ("N" :> "n") @@ ("O" :> "o") @@ ("P" :> "p") @@
    ("Q" :> "q") @@ ("R" :> "r") @@ ("S" :> "s") @@ ("T" :> "t") @@
    ("U" :> "u") @@ ("V" :> "v") @@ ("W" :> "w") @@ ("X" :> "x") @@
    ("Y" :> "y") @@ ("Z" :> "z")

\* strings.ToLower
ToLower(s) ==
    [i \in 1..Len(s) |-> IF s[i] \in DOMAIN UpperToLower THEN UpperToLower[s[i]] ELSE s[i]]

LabelChars ==
    {"a", "b", "c", "d", "e", "f", "g", "h", "i", "j", "k", "l", "m", "n", "o",
     "p", "q", "r", "s", "t", "u", "v", "w", "x", "y", "z",
     "0", "1", "2", "3", "4", "5", "6", "7", "8", "9", "-"}

\* sanitizeLabel (same package, another file): lower-cases the user name and
\* replaces every character a label value may not hold by a dash.
sanitizeLabel(username) ==
    [i \in 1..Len(username) |->
        LET c == ToLower(username)[i] IN IF c \in LabelChars THEN c ELSE "-"]

\* One command-line argument: a format with at most one %s, and the
\* character text substituted for it (fmt.Sprintf).
Arg(lit, text) == [lit |-> lit, text |-> text]
Lit(s) == Arg(s, <<>>)

\* strings.Contains(output, word), at the granularity of fields.
Contains(output, word) ==
    \E i \in DOMAIN output : \E j \in DOMAIN output[i] : output[i][j] = word

----------------------------------------------------------------------------
(* Program constants *)

requiredServiceAccountRoles ==
    <<"roles/compute.instanceAdmin.v1", "roles/iam.serviceAccountActor",
      "roles/container.clusterAdmin">>

\* The text gcloud prints for a listing with no entry.
Listed0Items == << <<"Listed", "0", "items.">> >>

SetIamPolicy == "resourcemanager.projects.setIamPolicy"

CLUSTER_LIST_HEADER == "PROJECT_ID"

ErrNoProjectDeclined ==
    "no google project to create cluster in, please manual create one and rerun this wizard"
ErrNotImplemented ==
    "auto creating projects not yet implemented, please manually create one and rerun the wizard"
ErrNoProject ==
    "no Google Cloud Project to create cluster in, please manual create one and rerun this wizard"
ErrNoPermission ==
    "User does not have the required role 'resourcemanager.projects.setIamPolicy' to configure a service account"

NoErr == ""
\* What the collaborators report when they fail.
ErrInstall == "install requirements failed"
ErrCommand == "exit status 1"
ErrPrompt == "interrupt"
ErrZones == "cannot list zones"

----------------------------------------------------------------------------
(* Inputs *)

\* The flags as bound by cobra (an unset string flag is "").
ProjectIdFlags == {"", "flag-project"}
ClusterNameFlags == {<<>>, <<"M", "y", "-", "C">>}
ZoneFlags == {"", "Flag-Zone"}
MachineTypeFlags == {"", "flag-machine"}
MinNumOfNodesFlags == {"", "1"}
MaxNumOfNodesFlags == {"", "9"}
LabelsFlags ==
    {<<>>,
     <<"F", "o", "o", "=", "B", "a", "r", ",", "B", "a", "z", "=", "Q", "u", "x">>,
     <<"K", "=", "v", ",">>}

FlagSets ==
    [SkipLogin : BOOLEAN, ProjectId : ProjectIdFlags, ClusterName : ClusterNameFlags,
     Zone : ZoneFlags, MachineType : MachineTypeFlags,
     MinNumOfNodes : MinNumOfNodesFlags, MaxNumOfNodes : MaxNumOfNodesFlags,
     Labels : LabelsFlags]

\* randomdata.SillyName()
SillyNames == {<<"F", "u", "z", "z", "y", "C", "a", "t">>}

\* Answers typed at the free-text prompts ("" is the empty answer).
TypedAnswers == {"", "4"}

\* os/user.Current(): no user, or a user with this Username.
Usernames == {<<>>, <<"a", "l", "i", "c", "e">>, <<"B", ".", "o">>}

\* gke.GetGoogleZones() on success.
GoogleZones == <<"us-central1-a", "europe-west1-b">>

\* gke.GetGoogleMachineTypes()
GoogleMachineTypes == <<"g1-small", "n1-standard-2">>

ProjectHeaderLine == <<"PROJECT_ID", "NAME", "PROJECT_NUMBER">>
ProjectLine(i) == <<"proj-" \o ToString(i), "name-" \o ToString(i), ToString(1000 + i)>>
ProjectTable(n) == <<ProjectHeaderLine>> \o [i \in 1..n |-> ProjectLine(i)]

\* What `gcloud projects list` may print: a table of n projects, and for no
\* project also the no-entry text that the service-account listing is tested
\* for.  Every line holds at least one field (the code indexes fields[0]
\* without a check).
ProjectListOutputs ==
    {ProjectTable(n) : n \in 0..MaxProjects} \cup {Listed0Items}

\* The outputs above that report no project.
ZeroProjectOutputs == {ProjectTable(0), Listed0Items}

\* What `gcloud iam service-accounts list --filter jx-<name>` prints when the
\* account exists.
ServiceAccountTable ==
    << <<"NAME", "EMAIL">>, <<"jx", "jx@project.iam.gserviceaccount.com">> >>

\* What `gcloud iam list-testable-permissions ... --filter <permission>` prints
\* when the caller holds the permission.
PermissionTable == << <<"name:", SetIamPolicy>>, <<"stage:", "GA">> >>

----------------------------------------------------------------------------
(* State *)

VARIABLES
    given,            \* the flags of the command line
    flags,            \* o.Flags
    provider,         \* the cloud side: account existed before the run, caller may set
                      \* IAM policy, account created by the run, roles bound by the run
    pc,               \* position in Run / createClusterGKETerraform
    result,           \* what Run returned ("running" before it returns)
    trace,            \* the external interactions so far
    confirm,
    projectId,
    out,              \* getGoogleProjectId: out
    existingProjects, \* getGoogleProjectId: existingProjects
    zone,
    availableZones,
    machineType,
    minNumOfNodes,
    maxNumOfNodes,
    output,
    args,
    roleIdx           \* index of the range loop over requiredServiceAccountRoles

vars ==
    <<given, flags, provider, pc, result, trace, confirm, projectId, out,
      existingProjects, zone, availableZones, machineType, minNumOfNodes,
      maxNumOfNodes, output, args, roleIdx>>

Ev(op, a, opts, err) == [op |-> op, args |-> a, opts |-> opts, err |-> err]

Commands ==
    {"gcloud auth login", "gcloud projects list", "gcloud config set project",
     "gcloud iam service-accounts list", "gcloud iam list-testable-permissions",
     "gcloud iam service-accounts create", "gcloud projects add-iam-policy-binding"}

Prompts ==
    {"confirm continue", "confirm create project", "select project", "select zone",
     "select machine type", "input min nodes", "input max nodes"}

Init ==
    /\ given \in FlagSets
    /\ flags = given
    /\ provider \in [saExists : BOOLEAN, hasPerm : BOOLEAN, created : {FALSE}, bound : {<<>>}]
    /\ pc = "installRequirements"
    /\ result = "running"
    /\ trace = <<>>
    /\ confirm = FALSE
    /\ projectId = ""
    /\ out = <<>>
    /\ existingProjects = <<>>
    /\ zone = ""
    /\ availableZones = <<>>
    /\ machineType = ""
    /\ minNumOfNodes = ""
    /\ maxNumOfNodes = ""
    /\ output = <<>>
    /\ args = <<>>
    /\ roleIdx = 0

----------------------------------------------------------------------------
(* Outcomes of the collaborators *)

\* survey.AskOne on a Confirm: an answer, or an error that leaves the
\* response untouched.
ConfirmOutcomes ==
    {[err |-> NoErr, val |-> b] : b \in BOOLEAN} \cup {[err |-> ErrPrompt, val |-> FALSE]}

\* survey.AskOne on a Select: one of the options, or an error.
SelectOutcomes(options) ==
    {[err |-> NoErr, val |-> options[i]] : i \in DOMAIN options}
        \cup {[err |-> ErrPrompt, val |-> ""]}

\* survey.AskOne on an Input: the typed answer, the default for an empty
\* answer, or an error.
InputOutcomes(default) ==
    {[err |-> NoErr, val |-> IF a = "" THEN default ELSE a] : a \in TypedAnswers}
        \cup {[err |-> ErrPrompt, val |-> ""]}

\* o.runCommand / o.getCommandOutput: the command exits 0 or not.
CommandOutcomes == {NoErr, ErrCommand}

----------------------------------------------------------------------------
(* Decisions of the code *)

\* (mutant) the answer is not looked at
ProceedsAlways(c) == TRUE

\* if !confirm { return nil }
Proceeds(c) == c

\* (mutant) the flag value is not looked at
UnsetAlways(v) == TRUE

\* if <flag> == "" { ... resolve ... }
Unset(v) == v = ""

\* if o.Flags.ClusterName == ""
UnsetName(v) == v = <<>>

\* (mutant) the error of the zone listing is dropped
ZonesFetchNeverAborts(err) == FALSE

\* if err != nil { return err } after gke.GetGoogleZones()
ZonesFetchAborts(err) == err # NoErr

\* (mutant) the account is taken to be missing whatever the listing says
ServiceAccountAlwaysMissing(o) == TRUE

\* if output == "Listed 0 items."
ServiceAccountMissing(o) == o = Listed0Items

\* (mutant) the permission is taken to be held whatever the listing says
AlwaysHasSetIamPolicy(o) == TRUE

\* if strings.Contains(output, "resourcemanager.projects.setIamPolicy")
HasSetIamPolicy(o) == Contains(o, SetIamPolicy)

\* (mutant) the roles are walked from the last to the first
RoleAtReversed(i) ==
    requiredServiceAccountRoles[Len(requiredServiceAccountRoles) + 1 - i]

\* for _, role := range requiredServiceAccountRoles
RoleAt(i) == requiredServiceAccountRoles[i]

\* serviceAccount := fmt.Sprintf("jx-%s", o.Flags.ClusterName)
ServiceAccount(f) == Arg("jx-%s", f.ClusterName)

\* getGoogleProjectId: the lines that do not contain the header
ProjectLines(text) ==
    SelectSeq(text, LAMBDA l : ~(\E j \in DOMAIN l : l[j] = CLUSTER_LIST_HEADER))

\* existingProjects = append(existingProjects, fields[0])
ParseProjects(text) ==
    [i \in 1..Len(ProjectLines(text)) |-> ProjectLines(text)[i][1]]

\* (mutant) the separator is written even before the first entry
WithCreatedByAlwaysSep(labels, username) ==
    labels \o <<",">> \o <<"c", "r", "e", "a", "t", "e", "d", "-", "b", "y", "=">>
           \o username

\* labels += sep + "created-by=" + username
WithCreatedBy(labels, username) ==
    labels \o (IF labels # <<>> THEN <<",">> ELSE <<>>)
           \o <<"c", "r", "e", "a", "t", "e", "d", "-", "b", "y", "=">> \o username

\* labels as left by lines 299-310; u is os/user.Current(): [err, name]
FinalLabels(labels, u) ==
    IF u.err = NoErr /\ sanitizeLabel(u.name) # <<>>
    THEN WithCreatedBy(labels, sanitizeLabel(u.name))
    ELSE labels

\* if labels != "" { args = append(args, "--labels="+strings.ToLower(labels)) }
WithLabelsArg(a, labels) ==
    IF labels # <<>> THEN Append(a, Arg("--labels=%s", ToLower(labels))) ELSE a

----------------------------------------------------------------------------
(* Run and createClusterGKETerraform *)

Returns(e) == pc' = "done" /\ result' = e

GoesTo(p) == pc' = p /\ UNCHANGED result

Logs(ev) == trace' = Append(trace, ev)

\* Run: err := o.installRequirements(GKE)
InstallRequirements ==
    /\ pc = "installRequirements"
    /\ \E e \in {NoErr, ErrInstall} :
        /\ Logs(Ev("installRequirements", <<Lit("GKE")>>, <<>>, e))
        /\ IF e # NoErr THEN Returns(e) ELSE GoesTo("confirm")
    /\ UNCHANGED <<given, flags, provider, confirm, projectId, out, existingProjects,
                   zone, availableZones, machineType, minNumOfNodes, maxNumOfNodes,
                   output, args, roleIdx>>

\* survey.AskOne(prompt, &confirm, nil); if !confirm { return nil }
AskContinue ==
    /\ pc = "confirm"
    /\ \E r \in ConfirmOutcomes :
        LET c == IF r.err = NoErr THEN r.val ELSE confirm IN
        /\ Logs(Ev("confirm continue", <<>>, <<>>, r.err))
        /\ confirm' = c
        /\ IF Proceeds(c) THEN GoesTo("login") ELSE Returns("nil")
    /\ UNCHANGED <<given, flags, provider, projectId, out, existingProjects,
                   zone, availableZones, machineType, minNumOfNodes, maxNumOfNodes,
                   output, args, roleIdx>>

\* if !o.Flags.SkipLogin { gcloud auth login --brief }
Login ==
    /\ pc = "login"
    /\ IF flags.SkipLogin
       THEN GoesTo("projectId") /\ UNCHANGED trace
       ELSE \E e \in CommandOutcomes :
            /\ Logs(Ev("gcloud auth login",
                       <<Lit("auth"), Lit("login"), Lit("--brief")>>, <<>>, e))
            /\ IF e # NoErr THEN Returns(e) ELSE GoesTo("projectId")
    /\ UNCHANGED <<given, flags, provider, confirm, projectId, out, existingProjects,
                   zone, availableZones, machineType, minNumOfNodes, maxNumOfNodes,
                   output, args, roleIdx>>

\* projectId := o.Flags.ProjectId; if projectId == "" { getGoogleProjectId():
\* gcloud projects list, and the parse of its output }
ListProjects ==
    /\ pc = "projectId"
    /\ IF ~Unset(flags.ProjectId)
       THEN /\ projectId' = flags.ProjectId
            /\ GoesTo("setProject")
            /\ UNCHANGED <<trace, out, existingProjects>>
       ELSE \E e \in CommandOutcomes :
            /\ Logs(Ev("gcloud projects list", <<Lit("projects"), Lit("list")>>, <<>>, e))
            /\ UNCHANGED projectId
            /\ IF e # NoErr
               THEN Returns(e) /\ UNCHANGED <<out, existingProjects>>
               ELSE \E text \in ProjectListOutputs :
                    /\ out' = text
                    /\ existingProjects' = ParseProjects(text)
                    /\ GoesTo("chooseProject")
    /\ UNCHANGED <<given, flags, provider, confirm, zone, availableZones, machineType,
                   minNumOfNodes, maxNumOfNodes, output, args, roleIdx>>

\* getGoogleProjectId from `var projectId string` on, and the caller's
\* `if err != nil { return err }`
ChooseProject ==
    /\ pc = "chooseProject"
    /\ IF Len(existingProjects) = 0
       THEN \E r \in ConfirmOutcomes :
            /\ Logs(Ev("confirm create project", <<>>, <<>>, r.err))
            /\ UNCHANGED projectId
            /\ IF r.err # NoErr THEN Returns(r.err)
               ELSE IF ~r.val THEN Returns(ErrNoProjectDeclined)
               ELSE Returns(ErrNotImplemented)
       ELSE IF Len(existingProjects) = 1
       THEN /\ UNCHANGED trace
            /\ IF existingProjects[1] = ""
               THEN Returns(ErrNoProject) /\ UNCHANGED projectId
               ELSE projectId' = existingProjects[1] /\ GoesTo("setProject")
       ELSE \E r \in SelectOutcomes(existingProjects) :
            /\ Logs(Ev("select project", <<>>, existingProjects, r.err))
            /\ IF r.err # NoErr THEN Returns(r.err) /\ UNCHANGED projectId
               ELSE IF r.val = "" THEN Returns(ErrNoProject) /\ UNCHANGED projectId
               ELSE projectId' = r.val /\ GoesTo("setProject")
    /\ UNCHANGED <<given, flags, provider, confirm, out, existingProjects, zone,
                   availableZones, machineType, minNumOfNodes, maxNumOfNodes,
                   output, args, roleIdx>>

\* gcloud config set project <projectId>; then the generated cluster name
SetProject ==
    /\ pc = "setProject"
    /\ \E e \in CommandOutcomes :
        /\ Logs(Ev("gcloud config set project",
                   <<Lit("config"), Lit("set"), Lit("project"), Lit(projectId)>>, <<>>, e))
        /\ IF e # NoErr
           THEN Returns(e) /\ UNCHANGED flags
           ELSE /\ GoesTo("zone")
                /\ IF UnsetName(flags.ClusterName)
                   THEN \E n \in SillyNames :
                        flags' = [flags EXCEPT !.ClusterName = ToLower(n)]
                   ELSE UNCHANGED flags
    /\ UNCHANGED <<given, provider, confirm, projectId, out, existingProjects, zone,
                   availableZones, machineType, minNumOfNodes, maxNumOfNodes,
                   output, args, roleIdx>>

\* zone := o.Flags.Zone; if zone == "" { availableZones, err := gke.GetGoogleZones() }
GetZones ==
    /\ pc = "zone"
    /\ IF ~Unset(flags.Zone)
       THEN /\ zone' = flags.Zone
            /\ GoesTo("machineType")
            /\ UNCHANGED <<trace, availableZones>>
       ELSE \E e \in {NoErr, ErrZones} :
            /\ Logs(Ev("gke.GetGoogleZones", <<>>, <<>>, e))
            /\ zone' = flags.Zone
            /\ IF ZonesFetchAborts(e)
               THEN Returns(e) /\ UNCHANGED availableZones
               ELSE /\ availableZones' = (IF e = NoErr THEN GoogleZones ELSE <<>>)
                    /\ GoesTo("askZone")
    /\ UNCHANGED <<given, flags, provider, confirm, projectId, out, existingProjects,
                   machineType, minNumOfNodes, maxNumOfNodes, output, args, roleIdx>>

\* err = survey.AskOne(prompts, &zone, nil) with Options: availableZones
AskZone ==
    /\ pc = "askZone"
    /\ \E r \in SelectOutcomes(availableZones) :
        /\ Logs(Ev("select zone", <<>>, availableZones, r.err))
        /\ IF r.err # NoErr
           THEN Returns(r.err) /\ UNCHANGED zone
           ELSE zone' = r.val /\ GoesTo("machineType")
    /\ UNCHANGED <<given, flags, provider, confirm, projectId, out, existingProjects,
                   availableZones, machineType, minNumOfNodes, maxNumOfNodes,
                   output, args, roleIdx>>

\* machineType := o.Flags.MachineType; if machineType == "" { select among
\* gke.GetGoogleMachineTypes() }
AskMachineType ==
    /\ pc = "machineType"
    /\ IF ~Unset(flags.MachineType)
       THEN /\ machineType' = flags.MachineType
            /\ GoesTo("minNodes")
            /\ UNCHANGED trace
       ELSE \E r \in SelectOutcomes(GoogleMachineTypes) :
            /\ trace' = trace \o
                 <<Ev("gke.GetGoogleMachineTypes", <<>>, <<>>, NoErr),
                   Ev("select machine type", <<>>, GoogleMachineTypes, r.err)>>
            /\ IF r.err # NoErr
               THEN Returns(r.err) /\ machineType' = flags.MachineType
               ELSE machineType' = r.val /\ GoesTo("minNodes")
    /\ UNCHANGED <<given, flags, provider, confirm, projectId, out, existingProjects,
                   zone, availableZones, minNumOfNodes, maxNumOfNodes, output, args,
                   roleIdx>>

\* minNumOfNodes := o.Flags.MinNumOfNodes; if minNumOfNodes == "" {
\* survey.AskOne(prompt, &minNumOfNodes, nil) }: the error is dropped
AskMinNodes ==
    /\ pc = "minNodes"
    /\ IF ~Unset(flags.MinNumOfNodes)
       THEN minNumOfNodes' = flags.MinNumOfNodes /\ UNCHANGED trace
       ELSE \E r \in InputOutcomes("3") :
            /\ Logs(Ev("input min nodes", <<>>, <<"3">>, r.err))
            /\ minNumOfNodes' = (IF r.err = NoErr THEN r.val ELSE flags.MinNumOfNodes)
    /\ GoesTo("maxNodes")
    /\ UNCHANGED <<given, flags, provider, confirm, projectId, out, existingProjects,
                   zone, availableZones, machineType, maxNumOfNodes, output, args,
                   roleIdx>>

\* maxNumOfNodes := o.Flags.MaxNumOfNodes; if maxNumOfNodes == "" {
\* survey.AskOne(prompt, &maxNumOfNodes, nil) }: the error is dropped
AskMaxNodes ==
    /\ pc = "maxNodes"
    /\ IF ~Unset(flags.MaxNumOfNodes)
       THEN maxNumOfNodes' = flags.MaxNumOfNodes /\ UNCHANGED trace
       ELSE \E r \in InputOutcomes("5") :
            /\ Logs(Ev("input max nodes", <<>>, <<"5">>, r.err))
            /\ maxNumOfNodes' = (IF r.err = NoErr THEN r.val ELSE flags.MaxNumOfNodes)
    /\ GoesTo("serviceAccount")
    /\ UNCHANGED <<given, flags, provider, confirm, projectId, out, existingProjects,
                   zone, availableZones, machineType, minNumOfNodes, output, args,
                   roleIdx>>

\* gcloud iam service-accounts list --filter jx-<name>; if output == "Listed 0 items."
ListServiceAccounts ==
    /\ pc = "serviceAccount"
    /\ LET a == <<Lit("iam"), Lit("service-accounts"), Lit("list"), Lit("--filter"),
                  ServiceAccount(flags)>> IN
       /\ args' = a
       /\ \E e \in CommandOutcomes :
           LET o == IF e # NoErr THEN <<>>
                    ELSE IF provider.saExists \/ provider.created THEN ServiceAccountTable
                    ELSE Listed0Items IN
           /\ Logs(Ev("gcloud iam service-accounts list", a, <<>>, e))
           /\ output' = o
           /\ IF e # NoErr THEN Returns(e)
              ELSE IF ServiceAccountMissing(o) THEN GoesTo("permission")
              ELSE GoesTo("labels")
    /\ UNCHANGED <<given, flags, provider, confirm, projectId, out, existingProjects,
                   zone, availableZones, machineType, minNumOfNodes, maxNumOfNodes,
                   roleIdx>>

\* gcloud iam list-testable-permissions //cloudresourcemanager.googleapis.com/projects/<id>
\*   --filter resourcemanager.projects.setIamPolicy; the else branch returns the
\* missing-role error
CheckPermission ==
    /\ pc = "permission"
    /\ LET a == <<Lit("iam"), Lit("list-testable-permissions"),
                  Lit("//cloudresourcemanager.googleapis.com/projects/" \o projectId),
                  Lit("--filter"), Lit(SetIamPolicy)>> IN
       /\ args' = a
       /\ \E e \in CommandOutcomes :
           LET o == IF e # NoErr THEN <<>>
                    ELSE IF provider.hasPerm THEN PermissionTable
                    ELSE Listed0Items IN
           /\ Logs(Ev("gcloud iam list-testable-permissions", a, <<>>, e))
           /\ output' = o
           /\ IF e # NoErr THEN Returns(e)
              ELSE IF HasSetIamPolicy(o) THEN GoesTo("create")
              ELSE Returns(ErrNoPermission)
    /\ UNCHANGED <<given, flags, provider, confirm, projectId, out, existingProjects,
                   zone, availableZones, machineType, minNumOfNodes, maxNumOfNodes,
                   roleIdx>>

\* gcloud iam service-accounts create jx-<name>
CreateServiceAccount ==
    /\ pc = "create"
    /\ LET a == <<Lit("iam"), Lit("service-accounts"), Lit("create"),
                  ServiceAccount(flags)>> IN
       /\ args' = a
       /\ \E e \in CommandOutcomes :
           /\ Logs(Ev("gcloud iam service-accounts create", a, <<>>, e))
           /\ IF e # NoErr
              THEN Returns(e) /\ UNCHANGED <<provider, roleIdx>>
              ELSE /\ provider' = [provider EXCEPT !.created = TRUE]
                   /\ roleIdx' = 1
                   /\ GoesTo("bind")
    /\ UNCHANGED <<given, flags, confirm, projectId, out, existingProjects, zone,
                   availableZones, machineType, minNumOfNodes, maxNumOfNodes, output>>

\* one iteration of the loop: gcloud projects add-iam-policy-binding <projectId>
\*   --member serviceAccount:jx-<name>@<projectId>.iam.gserviceaccount.com --role <role>
BindRole ==
    /\ pc = "bind"
    /\ LET a == <<Lit("projects"), Lit("add-iam-policy-binding"), Lit(projectId),
                  Lit("--member"),
                  Arg("serviceAccount:jx-%s@" \o projectId \o ".iam.gserviceaccount.com",
                      flags.ClusterName),
                  Lit("--role"), Lit(RoleAt(roleIdx))>> IN
       /\ args' = a
       /\ \E e \in CommandOutcomes :
           /\ Logs(Ev("gcloud projects add-iam-policy-binding", a, <<>>, e))
           /\ IF e # NoErr
              THEN Returns(e) /\ UNCHANGED <<provider, roleIdx>>
              ELSE /\ provider' = [provider EXCEPT !.bound = Append(@, RoleAt(roleIdx))]
                   /\ roleIdx' = roleIdx + 1
                   /\ IF roleIdx = Len(requiredServiceAccountRoles)
                      THEN GoesTo("labels") ELSE GoesTo("bind")
    /\ UNCHANGED <<given, flags, confirm, projectId, out, existingProjects, zone,
                   availableZones, machineType, minNumOfNodes, maxNumOfNodes, output>>

\* labels := o.Flags.Labels ... args = append(args, "--labels="+...); return nil
BuildLabels ==
    /\ pc = "labels"
    /\ \E u \in {[err |-> "user: Current not implemented", name |-> <<>>]}
                  \cup {[err |-> NoErr, name |-> n] : n \in Usernames} :
        /\ Logs(Ev("os/user.Current", <<Arg("%s", u.name)>>, <<>>, u.err))
        /\ args' = WithLabelsArg(args, FinalLabels(flags.Labels, u))
    /\ Returns("nil")
    /\ UNCHANGED <<given, flags, provider, confirm, projectId, out, existingProjects,
                   zone, availableZones, machineType, minNumOfNodes, maxNumOfNodes,
                   output, roleIdx>>

Next ==
    \/ InstallRequirements
    \/ AskContinue
    \/ Login
    \/ ListProjects
    \/ ChooseProject
    \/ SetProject
    \/ GetZones
    \/ AskZone
    \/ AskMachineType
    \/ AskMinNodes
    \/ AskMaxNodes
    \/ ListServiceAccounts
    \/ CheckPermission
    \/ CreateServiceAccount
    \/ BindRole
    \/ BuildLabels

Spec == Init /\ [][Next]_vars

----------------------------------------------------------------------------
(* Reading the history *)

Issued(op) == \E i \in DOMAIN trace : trace[i].op = op

Count(op) == Cardinality({i \in DOMAIN trace : trace[i].op = op})

Succeeded(op) == \E i \in DOMAIN trace : trace[i].op = op /\ trace[i].err = NoErr

\* The positions of the events of one kind, in order.
Positions(op) == SelectSeq([i \in 1..Len(trace) |-> i], LAMBDA i : trace[i].op = op)

\* The run has returned nil after going through the whole wizard.
Completed == pc = "done" /\ result = "nil" /\ confirm

\* The event at position i is the last one and its error is what Run returned.
AbortsAt(i) == i = Len(trace) /\ pc = "done" /\ result = trace[i].err

CreatedByPrefix == <<"c", "r", "e", "a", "t", "e", "d", "-", "b", "y", "=">>

\* The user name os/user.Current() gave, sanitized (<<>> when it gave none).
SanitizedUser ==
    LET i == Positions("os/user.Current")[1] IN
    IF trace[i].err = NoErr THEN sanitizeLabel(trace[i].args[1].text) ELSE <<>>

LabelsArgs == SelectSeq(args, LAMBDA a : a.lit = "--labels=%s")

\* A comma-separated list without a leading, trailing or doubled comma.
CleanList(t) ==
    /\ t # <<>> => t[1] # "," /\ t[Len(t)] # ","
    /\ \A k \in 1..(Len(t) - 1) : ~(t[k] = "," /\ t[k + 1] = ",")

----------------------------------------------------------------------------
(* Claims *)

\* C1: when the top-level confirmation is declined, or fails and so stays at
\* its false default, the wizard returns nil at once: the confirmation is the
\* last interaction, no gcloud command was issued, no other prompt was shown,
\* and neither the options nor the provider changed.
C1_DeclinedIsNoOp ==
    (Issued("confirm continue") /\ ~confirm) =>
        /\ pc = "done" /\ result = "nil"
        /\ trace[Len(trace)].op = "confirm continue"
        /\ \A i \in DOMAIN trace :
            trace[i].op \notin Commands /\ trace[i].op \notin (Prompts \ {"confirm continue"})
        /\ Count("confirm continue") = 1
        /\ flags = given
        /\ ~provider.created /\ provider.bound = <<>>

C1_Witness ==
    /\ Issued("confirm continue") /\ ~confirm /\ pc = "done"
    /\ ~given.SkipLogin /\ given.ProjectId = "" /\ given.Zone = ""

\* C2: a required field given by a non-empty flag is never prompted for,
\* generated or listed, and the value the later steps use is the flag value
\* unchanged.
C2_FlagWins ==
    /\ given.ProjectId # "" =>
        /\ ~Issued("gcloud projects list") /\ ~Issued("select project")
        /\ ~Issued("confirm create project")
        /\ projectId \in {"", given.ProjectId}
        /\ \A i \in DOMAIN trace :
            /\ trace[i].op = "gcloud config set project"
                 => trace[i].args[4] = Lit(given.ProjectId)
            /\ trace[i].op = "gcloud projects add-iam-policy-binding"
                 => trace[i].args[3] = Lit(given.ProjectId)
    /\ given.ClusterName # <<>> =>
        /\ flags.ClusterName = given.ClusterName
        /\ \A i \in DOMAIN trace :
            trace[i].op \in {"gcloud iam service-accounts list",
                             "gcloud iam service-accounts create"}
                 => trace[i].args[Len(trace[i].args)] = Arg("jx-%s", given.ClusterName)
    /\ given.Zone # "" =>
        /\ ~Issued("gke.GetGoogleZones") /\ ~Issued("select zone")
        /\ zone \in {"", given.Zone}
    /\ given.MachineType # "" =>
        /\ ~Issued("gke.GetGoogleMachineTypes") /\ ~Issued("select machine type")
        /\ machineType \in {"", given.MachineType}
    /\ given.MinNumOfNodes # "" =>
        /\ ~Issued("input min nodes")
        /\ minNumOfNodes \in {"", given.MinNumOfNodes}
    /\ given.MaxNumOfNodes # "" =>
        /\ ~Issued("input max nodes")
        /\ maxNumOfNodes \in {"", given.MaxNumOfNodes}
    /\ Issued("gcloud iam service-accounts list") =>
        /\ given.ProjectId # "" => projectId = given.ProjectId
        /\ given.Zone # "" => zone = given.Zone
        /\ given.MachineType # "" => machineType = given.MachineType
        /\ given.MinNumOfNodes # "" => minNumOfNodes = given.MinNumOfNodes
        /\ given.MaxNumOfNodes # "" => maxNumOfNodes = given.MaxNumOfNodes

C2_Witness ==
    /\ Completed
    /\ given.ProjectId # "" /\ given.ClusterName # <<>> /\ given.Zone # ""
    /\ given.MachineType # "" /\ given.MinNumOfNodes # "" /\ given.MaxNumOfNodes # ""
    /\ provider.created

\* C3: when the account jx-<cluster-name> existed at the provider before the
\* run, the run issues no permission check, no account creation and no role
\* binding, and the provider is left as it was.
C3_ExistingAccountUntouched ==
    provider.saExists =>
        /\ ~Issued("gcloud iam list-testable-permissions")
        /\ ~Issued("gcloud iam service-accounts create")
        /\ ~Issued("gcloud projects add-iam-policy-binding")
        /\ ~provider.created /\ provider.bound = <<>>

C3_Witness ==
    /\ provider.saExists /\ Completed
    /\ Succeeded("gcloud iam service-accounts list")

\* C4: when the account is absent and the caller lacks
\* resourcemanager.projects.setIamPolicy, no account creation and no role
\* binding is ever issued; the permission check is issued at most once, and
\* once it has answered the run is over with the missing-role error; the run
\* never returns nil.
C4_NoPermissionFails ==
    (~provider.saExists /\ ~provider.hasPerm) =>
        /\ ~Issued("gcloud iam service-accounts create")
        /\ ~Issued("gcloud projects add-iam-policy-binding")
        /\ Count("gcloud iam list-testable-permissions") <= 1
        /\ \A i \in DOMAIN trace :
            (trace[i].op = "gcloud iam list-testable-permissions" /\ trace[i].err = NoErr)
                => i = Len(trace) /\ pc = "done" /\ result = ErrNoPermission
        /\ ~Completed

C4_Witness ==
    /\ ~provider.saExists /\ ~provider.hasPerm
    /\ Succeeded("gcloud iam list-testable-permissions")
    /\ result = ErrNoPermission

\* C5: when the account is absent and the permission held, the account is
\* created by at most one call (exactly one in a run that completes), the
\* binding calls come after the successful creation, the k-th of them binds
\* the k-th role of the list (three in a run that completes), a failed
\* creation or binding is the last interaction and its error is the result,
\* and what was created or bound stays so.
C5_CreateThenBindInOrder ==
    (~provider.saExists /\ provider.hasPerm) =>
        LET binds == Positions("gcloud projects add-iam-policy-binding")
            creates == Positions("gcloud iam service-accounts create") IN
        /\ Len(creates) <= 1
        /\ Len(binds) <= Len(requiredServiceAccountRoles)
        /\ \A k \in DOMAIN binds :
            /\ trace[binds[k]].args[7] = Lit(requiredServiceAccountRoles[k])
            /\ Len(creates) = 1 /\ creates[1] < binds[k] /\ trace[creates[1]].err = NoErr
            /\ k > 1 => trace[binds[k - 1]].err = NoErr
        /\ \A i \in DOMAIN trace :
            (/\ trace[i].op \in {"gcloud iam service-accounts create",
                                 "gcloud projects add-iam-policy-binding"}
             /\ trace[i].err # NoErr) => AbortsAt(i)
        /\ provider.created = Succeeded("gcloud iam service-accounts create")
        /\ provider.bound =
             [k \in 1..Len(SelectSeq(binds, LAMBDA i : trace[i].err = NoErr)) |->
                 requiredServiceAccountRoles[k]]
        /\ Completed =>
             /\ Len(creates) = 1
             /\ provider.bound = requiredServiceAccountRoles

C5_Witness ==
    /\ ~provider.saExists /\ provider.hasPerm /\ Completed
    /\ provider.bound = requiredServiceAccountRoles

\* C6 (as claimed): a run that completes reaches the handoff with every
\* required field non-empty.
C6_FieldsNonEmptyAtHandoff ==
    Completed =>
        /\ projectId # "" /\ flags.ClusterName # <<>> /\ zone # ""
        /\ machineType # "" /\ minNumOfNodes # "" /\ maxNumOfNodes # ""

\* C7 (as claimed): an error of any command, prompt or provider listing is the
\* last interaction of the run and is what the run returns.
C7_EveryErrorAborts ==
    \A i \in DOMAIN trace :
        (/\ trace[i].op \in Commands \cup Prompts \cup {"gke.GetGoogleZones"}
         /\ trace[i].err # NoErr) => AbortsAt(i)

\* C8 (as claimed): without a project-id flag, once the project listing has
\* reported no project, no project is selected and no `gcloud config set
\* project` is issued; the creation offer is made and the run ends with the
\* no-project or the not-implemented error (or the error of the offer itself).
C8_ZeroProjectsOffersAndFails ==
    (Succeeded("gcloud projects list") /\ out \in ZeroProjectOutputs) =>
        /\ projectId = ""
        /\ ~Issued("gcloud config set project")
        /\ pc \in {"chooseProject", "done"}
        /\ pc = "done" =>
            /\ trace[Len(trace)].op = "confirm create project"
            /\ result \in {ErrNoProjectDeclined, ErrNotImplemented, ErrPrompt}

C10_LabelsAlwaysEndWithCreatedBy ==
    Completed =>
        /\ Len(LabelsArgs) = 1
        /\ SanitizedUser # <<>>
        /\ args[Len(args)] =
             Arg("--labels=%s",
                 ToLower(given.Labels) \o (IF given.Labels # <<>> THEN <<",">> ELSE <<>>)
                     \o CreatedByPrefix \o SanitizedUser)
        /\ CleanList(args[Len(args)].text)

\* C10 (amended): when the current user is known and its sanitized name is not
\* empty, the run that completes has passed exactly one --labels= argument,
\* the last one: the lower-cased user labels, then a comma if there are any,
\* then created-by=<sanitized user name>, with no leading and no doubled
\* comma when the user labels have no leading, trailing or doubled comma.
\* Otherwise the argument holds the lower-cased user labels alone, and is not
\* passed when there are none.
C10_LabelsArgument ==
    Completed =>
        IF SanitizedUser # <<>>
        THEN /\ Len(LabelsArgs) = 1
             /\ args[Len(args)] =
                  Arg("--labels=%s",
                      ToLower(given.Labels)
                          \o (IF given.Labels # <<>> THEN <<",">> ELSE <<>>)
                          \o CreatedByPrefix \o SanitizedUser)
             /\ CleanList(given.Labels) => CleanList(args[Len(args)].text)
        ELSE IF given.Labels # <<>>
        THEN /\ Len(LabelsArgs) = 1
             /\ args[Len(args)] = Arg("--labels=%s", ToLower(given.Labels))
        ELSE Len(LabelsArgs) = 0

C10_Witness ==
    /\ Completed
    /\ SanitizedUser = <<"a", "l", "i", "c", "e">>
    /\ args[Len(args)].text =
         <<"f", "o", "o", "=", "b", "a", "r", ",", "b", "a", "z", "=", "q", "u", "x", ",",
           "c", "r", "e", "a", "t", "e", "d", "-", "b", "y", "=", "a", "l", "i", "c", "e">>

====
